---- MODULE Spec2Model ----
(***************************************************************************)
(* Model of the mm_maze crate: the wall grid (src/src/maze.rs), the step   *)
(* map and the Adachi navigator (src/src/adachi.rs) and the driving loop   *)
(* of the `solve` test (src/src/lib.rs).                                   *)
(*                                                                         *)
(* Vec<Vec<T>> values are functions over 0-based index ranges, the empty   *)
(* vector is <<>>.  A Position is [x, y], a Location is [pos, dir].        *)
(* Option::None is <<>>, Some((y, x)) is <<y, x>>.                         *)
(***************************************************************************)
EXTENDS Integers, Sequences, FiniteSets, TLC

VARIABLES
    maze,         \* the Maze under construction, then Adachi.maze
    location,     \* Adachi.location
    step_map,     \* Adachi.step_map
    mode,         \* Adachi.mode
    actual_maze,  \* tests::solve: actual_maze
    limit,        \* tests::solve: limit
    pc,           \* position of the program
    call,         \* the arguments of the last call (navigate, calc_step_map, turn, ..)
    ret,          \* what the last operation returned
    sets,         \* number of Maze::set calls made so far
    calls,        \* number of navigate (or calc_step_map) calls made so far
    local         \* the locals of a calc_step_map call in progress

vars == <<maze, location, step_map, mode, actual_maze, limit, pc, call, ret, sets, calls,
         local>>

----------------------------------------------------------------------------
(* Bounds of the model. *)

\* grid of the navigator specification Spec
NavWidth == 2
NavHeight == 2
\* Maze::set calls before the maze is handed to Adachi::new
MaxSets == 1
\* navigate calls on one navigator
MaxCalls == 1
\* largest number of cells of a grid of SpecStepMap
MaxCells == 6
\* largest number of cells of a grid of SpecSolve
SolveMaxCells == 9
\* largest number of cells of a grid of SpecMaze
GridMaxCells == 4
\* largest number of cells of a grid of SpecRelax
RelaxMaxCells == 6
\* largest number of cells of a grid of SpecRecalc
RecalcMaxCells == 4
\* calc_step_map calls on one navigator in SpecRecalc
RecalcMaxCalls == 2
\* largest number of cells of a grid of SpecEdge
EdgeMaxCells == 4
\* Maze::set calls on one grid in SpecEdge
EdgeMaxSets == 2
\* largest number of cells of a grid of SpecCell
CellMaxCells == 4

----------------------------------------------------------------------------
(* Enumerations: maze.rs Wall, Direction, Compass; adachi.rs StepMapMode. *)

Wall == {"Absent", "Present", "Unexplored"}

Direction == {"Forward", "Left", "Right", "Backward"}

Compass == {"North", "East", "South", "West"}

\* Compass::iter(): the order in which the directions are visited
CompassIter == <<"North", "East", "South", "West">>

StepMapMode == {"UnexploredAsAbsent", "UnexploredAsPresent"}

\* u16::MAX itself as the sentinel
NoneIsMax == 65536 - 1

\* Adachi::NONE = u16::MAX - 1
NONE == 65534

U16Max == 65535

\* u16 addition (wrapping, as a release build computes it)
U16Add(a, b) == (a + b) % 65536

Position(x, y) == [x |-> x, y |-> y]

\* Location::new(): (0,0) facing North
LocationNew == [pos |-> Position(0, 0), dir |-> "North"]

\* turn with Left and Right exchanged
TurnMirrored(self, direction) ==
    CASE direction = "Forward" -> self
      [] <<self, direction>> \in {<<"North", "Left">>, <<"South", "Right">>,
                                  <<"West", "Backward">>} -> "East"
      [] <<self, direction>> \in {<<"North", "Right">>, <<"South", "Left">>,
                                  <<"East", "Backward">>} -> "West"
      [] <<self, direction>> \in {<<"East", "Right">>, <<"West", "Left">>,
                                  <<"South", "Backward">>} -> "North"
      [] OTHER -> "South"

\* Compass::turn
Turn(self, direction) ==
    CASE self = "North" /\ direction = "Forward"  -> "North"
      [] self = "North" /\ direction = "Left"     -> "West"
      [] self = "North" /\ direction = "Right"    -> "East"
      [] self = "North" /\ direction = "Backward" -> "South"
      [] self = "East"  /\ direction = "Forward"  -> "East"
      [] self = "East"  /\ direction = "Left"     -> "North"
      [] self = "East"  /\ direction = "Right"    -> "South"
      [] self = "East"  /\ direction = "Backward" -> "West"
      [] self = "South" /\ direction = "Forward"  -> "South"
      [] self = "South" /\ direction = "Left"     -> "East"
      [] self = "South" /\ direction = "Right"    -> "West"
      [] self = "South" /\ direction = "Backward" -> "North"
      [] self = "West"  /\ direction = "Forward"  -> "West"
      [] self = "West"  /\ direction = "Left"     -> "South"
      [] self = "West"  /\ direction = "Right"    -> "North"
      [] self = "West"  /\ direction = "Backward" -> "East"

\* get_direction_to with Left and Right exchanged
GetDirectionToMirrored(self, target) ==
    CASE self = target -> "Forward"
      [] <<self, target>> \in {<<"North", "East">>, <<"East", "South">>,
                               <<"South", "West">>, <<"West", "North">>} -> "Left"
      [] <<self, target>> \in {<<"North", "West">>, <<"West", "South">>,
                               <<"South", "East">>, <<"East", "North">>} -> "Right"
      [] OTHER -> "Backward"

\* Compass::get_direction_to
GetDirectionTo(self, target) ==
    CASE self = "North" /\ target = "North" -> "Forward"
      [] self = "North" /\ target = "East"  -> "Right"
      [] self = "North" /\ target = "South" -> "Backward"
      [] self = "North" /\ target = "West"  -> "Left"
      [] self = "East"  /\ target = "North" -> "Left"
      [] self = "East"  /\ target = "East"  -> "Forward"
      [] self = "East"  /\ target = "South" -> "Right"
      [] self = "East"  /\ target = "West"  -> "Backward"
      [] self = "South" /\ target = "North" -> "Backward"
      [] self = "South" /\ target = "East"  -> "Left"
      [] self = "South" /\ target = "South" -> "Forward"
      [] self = "South" /\ target = "West"  -> "Right"
      [] self = "West"  /\ target = "North" -> "Right"
      [] self = "West"  /\ target = "East"  -> "Backward"
      [] self = "West"  /\ target = "South" -> "Left"
      [] self = "West"  /\ target = "West"  -> "Forward"

\* Location::forward
Forward(loc) ==
    CASE loc.dir = "North" -> [loc EXCEPT !.pos.y = @ + 1]
      [] loc.dir = "East"  -> [loc EXCEPT !.pos.x = @ + 1]
      [] loc.dir = "South" -> [loc EXCEPT !.pos.y = @ - 1]
      [] loc.dir = "West"  -> [loc EXCEPT !.pos.x = @ - 1]

----------------------------------------------------------------------------
(* Maze (maze.rs). *)

\* get whose East arm reads the cell's own column of vertical_walls
GetEastOwnColumn(m, y, x, compass) ==
    CASE compass = "North" -> m.horizontal_walls[y + 1][x]
      [] compass = "East"  -> m.vertical_walls[y][x]
      [] compass = "South" -> m.horizontal_walls[y][x]
      [] compass = "West"  -> m.vertical_walls[y][x]

\* Maze::get
Get(m, y, x, compass) ==
    CASE compass = "North" -> m.horizontal_walls[y + 1][x]
      [] compass = "East"  -> m.vertical_walls[y][x + 1]
      [] compass = "South" -> m.horizontal_walls[y][x]
      [] compass = "West"  -> m.vertical_walls[y][x]

\* The guard of Maze::set: the write is dropped when it holds.
SetIsIgnored(m, y, x, compass, wall) ==
    \/ (y = 0 /\ compass = "South" /\ wall # "Present")
    \/ (y = m.height /\ compass = "North" /\ wall # "Present")
    \/ (x = 0 /\ compass = "West" /\ wall # "Present")
    \/ (x = m.width /\ compass = "East" /\ wall # "Present")

\* Maze::set
Set(m, y, x, compass, wall) ==
    IF SetIsIgnored(m, y, x, compass, wall) THEN m
    ELSE CASE compass = "North" -> [m EXCEPT !.horizontal_walls[y + 1][x] = wall]
           [] compass = "East"  -> [m EXCEPT !.vertical_walls[y][x + 1] = wall]
           [] compass = "South" -> [m EXCEPT !.horizontal_walls[y][x] = wall]
           [] compass = "West"  -> [m EXCEPT !.vertical_walls[y][x] = wall]

\* init that sets the boundary and the start cell but resets no edge
MazeInitKeepsEdges(m) ==
    LET outer ==
            [m EXCEPT
                !.horizontal_walls =
                    [y \in 0..m.height |-> [x \in 0..(m.width - 1) |->
                        IF y = 0 \/ y = m.height THEN "Present" ELSE @[y][x]]],
                !.vertical_walls =
                    [y \in 0..(m.height - 1) |-> [x \in 0..m.width |->
                        IF x = 0 \/ x = m.width THEN "Present" ELSE @[y][x]]]]
        start == Set(outer, 0, 0, Turn("North", "Right"), "Present")
    IN  [start EXCEPT !.goal = Position(m.width \div 2, m.height \div 2)]

\* Maze::init
MazeInit(m) ==
    LET unexplored ==
            [m EXCEPT
                !.horizontal_walls =
                    [y \in 0..m.height |-> [x \in 0..(m.width - 1) |-> "Unexplored"]],
                !.vertical_walls =
                    [y \in 0..(m.height - 1) |-> [x \in 0..m.width |-> "Unexplored"]]]
        outer ==
            [unexplored EXCEPT
                !.horizontal_walls =
                    [y \in 0..m.height |-> [x \in 0..(m.width - 1) |->
                        IF y = 0 \/ y = m.height THEN "Present" ELSE @[y][x]]],
                !.vertical_walls =
                    [y \in 0..(m.height - 1) |-> [x \in 0..m.width |->
                        IF x = 0 \/ x = m.width THEN "Present" ELSE @[y][x]]]]
        start == Set(outer, 0, 0, Turn("North", "Right"), "Present")
    IN  [start EXCEPT !.goal = Position(m.width \div 2, m.height \div 2)]

\* Maze::new
MazeNew(w, h) ==
    MazeInit([width |-> w,
              height |-> h,
              horizontal_walls |-> [y \in 0..h |-> [x \in 0..(w - 1) |-> "Unexplored"]],
              vertical_walls |-> [y \in 0..(h - 1) |-> [x \in 0..w |-> "Unexplored"]],
              goal |-> Position(0, 0)])

\* Maze::set_goal
SetGoal(m, pos) == [m EXCEPT !.goal = pos]

\* Maze::get_neighbor_cell
GetNeighborCell(m, y, x, compass) ==
    CASE compass = "North" -> IF y = m.height - 1 THEN <<>> ELSE <<y + 1, x>>
      [] compass = "East"  -> IF x = m.width - 1 THEN <<>> ELSE <<y, x + 1>>
      [] compass = "South" -> IF y = 0 THEN <<>> ELSE <<y - 1, x>>
      [] compass = "West"  -> IF x = 0 THEN <<>> ELSE <<y, x - 1>>

\* the positions of the cells of a maze
Cells(m) == {Position(x, y) : x \in 0..(m.width - 1), y \in 0..(m.height - 1)}

----------------------------------------------------------------------------
(* Adachi::calc_step_map (adachi.rs). *)

\* is_wall with the two arms of the match exchanged
IsWallSwapped(md, wall) ==
    IF md = "UnexploredAsPresent"
    THEN wall = "Absent" \/ wall = "Unexplored"
    ELSE wall = "Absent"

\* the closure is_wall: TRUE for an edge the step map may cross
IsWall(md, wall) ==
    IF md = "UnexploredAsAbsent"
    THEN wall = "Absent" \/ wall = "Unexplored"
    ELSE wall = "Absent"

\* vec![vec![Adachi::NONE; width]; height]
NoneMap(m) == [y \in 0..(m.height - 1) |-> [x \in 0..(m.width - 1) |-> NONE]]

\* the (re)allocation at the head of calc_step_map
Allocate(m, sm) ==
    IF sm = <<>> THEN NoneMap(m)
    ELSE IF Cardinality(DOMAIN sm) # m.height /\ Cardinality(DOMAIN sm[0]) # m.width
         THEN NoneMap(m)
         ELSE sm

\* Relax that compares with >= : a cell is rewritten with the value it has
RelaxNotStrict(st, m, md, i, j, compass) ==
    LET nb == GetNeighborCell(m, i, j, compass)
    IN  IF nb = <<>> THEN st
        ELSE LET neighbor == st.step_map[nb[1]][nb[2]]
                 current == st.step_map[i][j]
             IN  IF IsWall(md, Get(m, i, j, compass)) /\ current >= U16Add(neighbor, 1)
                 THEN [st EXCEPT !.step_map[i][j] = U16Add(neighbor, 1),
                                 !.no_cell_updated = FALSE,
                                 !.updates = @ + 1]
                 ELSE st

\* Relax without the is_wall test: every edge between two cells is crossed
RelaxThroughWalls(st, m, md, i, j, compass) ==
    LET nb == GetNeighborCell(m, i, j, compass)
    IN  IF nb = <<>> THEN st
        ELSE LET neighbor == st.step_map[nb[1]][nb[2]]
                 current == st.step_map[i][j]
             IN  IF current > U16Add(neighbor, 1)
                 THEN [st EXCEPT !.step_map[i][j] = U16Add(neighbor, 1),
                                 !.no_cell_updated = FALSE,
                                 !.updates = @ + 1]
                 ELSE st

\* the body of the innermost loop: cell (i, j) against its neighbour at compass
Relax(st, m, md, i, j, compass) ==
    LET nb == GetNeighborCell(m, i, j, compass)
    IN  IF nb = <<>> THEN st
        ELSE LET neighbor == st.step_map[nb[1]][nb[2]]
                 current == st.step_map[i][j]
             IN  IF IsWall(md, Get(m, i, j, compass)) /\ current > U16Add(neighbor, 1)
                 THEN [st EXCEPT !.step_map[i][j] = U16Add(neighbor, 1),
                                 !.no_cell_updated = FALSE,
                                 !.updates = @ + 1]
                 ELSE st

\* one pass of the three nested for loops, from the k-th (cell, compass) pair on
RECURSIVE Pass(_, _, _, _)
Pass(st, m, md, k) ==
    IF k >= m.height * m.width * 4 THEN st
    ELSE Pass(Relax(st, m, md, k \div (4 * m.width), (k \div 4) % m.width,
                    CompassIter[(k % 4) + 1]),
              m, md, k + 1)

\* the body of the while loop: `no_cell_updated = true;` and the three for loops
WhileBody(st, m, md) ==
    Pass([st EXCEPT !.no_cell_updated = TRUE, !.passes = @ + 1], m, md, 0)

\* the loop left after its first pass, whether or not a cell was updated
WhileOnePass(st, m, md) ==
    IF st.no_cell_updated THEN st
    ELSE Pass([st EXCEPT !.no_cell_updated = TRUE, !.passes = @ + 1], m, md, 0)

\* while !no_cell_updated { no_cell_updated = true; ... }
RECURSIVE While(_, _, _)
While(st, m, md) ==
    IF st.no_cell_updated THEN st
    ELSE While(WhileBody(st, m, md), m, md)

\* calc_step_map without the loop that resets every cell to NONE
CalcStepMapRunNoReset(m, sm, md, target) ==
    LET alloc == Allocate(m, sm)
        start == [alloc EXCEPT ![target.y][target.x] = 0]
    IN  While([step_map |-> start, no_cell_updated |-> FALSE, passes |-> 0, updates |-> 0],
              m, md)

\* the head of calc_step_map: the field is allocated, every cell is reset to
\* NONE and the target is set to 0
ResetStepMap(m, sm, target) ==
    LET alloc == Allocate(m, sm)
        reset == [y \in DOMAIN alloc |-> [x \in DOMAIN alloc[y] |-> NONE]]
    IN  [reset EXCEPT ![target.y][target.x] = 0]

\* calc_step_map with its loop counters: [step_map, no_cell_updated, passes, updates]
CalcStepMapRun(m, sm, md, target) ==
    While([step_map |-> ResetStepMap(m, sm, target), no_cell_updated |-> FALSE,
           passes |-> 0, updates |-> 0],
          m, md)

\* Adachi::calc_step_map: the new step_map
CalcStepMap(m, sm, md, target) == CalcStepMapRun(m, sm, md, target).step_map

----------------------------------------------------------------------------
(* Adachi (adachi.rs).  A navigator is [location, maze, step_map, mode]. *)

\* Adachi::new
AdachiNew(m) ==
    [location |-> [pos |-> Position(0, 0), dir |-> "North"],
     maze |-> m,
     step_map |-> <<>>,
     mode |-> "UnexploredAsAbsent"]

\* Adachi::get_goal
GetGoal(a) == a.maze.goal

\* values an operation returns
RetNone == <<"None", "">>
RetOk(d) == <<"Ok", d>>
ErrGoalReached == <<"Err", "Goal reached">>
ErrNoPath == <<"Err", "No path to go">>
RetPanic == <<"Panic", "">>

\* the step_map index navigate reads for a direction: [cur_y + 1][cur_x], ...
ScanIndex(cur_y, cur_x, compass) ==
    CASE compass = "North" -> <<cur_y + 1, cur_x>>
      [] compass = "East"  -> <<cur_y, cur_x + 1>>
      [] compass = "South" -> <<cur_y - 1, cur_x>>
      [] compass = "West"  -> <<cur_y, cur_x - 1>>

\* an index expression that does not panic (usize underflow or out of bounds)
InBounds(sm, idx) == idx[1] \in DOMAIN sm /\ idx[2] \in DOMAIN sm[idx[1]]

\* let mut min_step = std::u16::MAX; let mut result = None;
ScanStart == [min_step |-> U16Max, result |-> "None", panic |-> FALSE]

\* ScanDir that takes every edge that is not Present for an open one
ScanDirNotPresent(a, acc, compass) ==
    LET cur_y == a.location.pos.y
        cur_x == a.location.pos.x
        idx == ScanIndex(cur_y, cur_x, compass)
    IN  IF acc.panic THEN acc
        ELSE IF Get(a.maze, cur_y, cur_x, compass) # "Present"
             THEN IF ~InBounds(a.step_map, idx)
                  THEN [acc EXCEPT !.panic = TRUE]
                  ELSE IF a.step_map[idx[1]][idx[2]] < acc.min_step
                       THEN [acc EXCEPT !.min_step = a.step_map[idx[1]][idx[2]],
                                        !.result = compass]
                       ELSE acc
             ELSE acc

\* ScanDir that compares with <= : of two equal directions the later one wins
ScanDirLastWins(a, acc, compass) ==
    LET cur_y == a.location.pos.y
        cur_x == a.location.pos.x
        idx == ScanIndex(cur_y, cur_x, compass)
    IN  IF acc.panic THEN acc
        ELSE IF Get(a.maze, cur_y, cur_x, compass) = "Absent"
             THEN IF ~InBounds(a.step_map, idx)
                  THEN [acc EXCEPT !.panic = TRUE]
                  ELSE IF a.step_map[idx[1]][idx[2]] <= acc.min_step
                       THEN [acc EXCEPT !.min_step = a.step_map[idx[1]][idx[2]],
                                        !.result = compass]
                       ELSE acc
             ELSE acc

\* one of the four `if self.maze.get(cur_y, cur_x, Compass::..) == Wall::Absent` blocks
ScanDir(a, acc, compass) ==
    LET cur_y == a.location.pos.y
        cur_x == a.location.pos.x
        idx == ScanIndex(cur_y, cur_x, compass)
    IN  IF acc.panic THEN acc
        ELSE IF Get(a.maze, cur_y, cur_x, compass) = "Absent"
             THEN IF ~InBounds(a.step_map, idx)
                  THEN [acc EXCEPT !.panic = TRUE]
                  ELSE IF a.step_map[idx[1]][idx[2]] < acc.min_step
                       THEN [acc EXCEPT !.min_step = a.step_map[idx[1]][idx[2]],
                                        !.result = compass]
                       ELSE acc
             ELSE acc

\* the four blocks in the order of the source: North, East, South, West
Scan(a) ==
    ScanDir(a, ScanDir(a, ScanDir(a, ScanDir(a, ScanStart, "North"), "East"), "South"),
            "West")

\* WriteWalls with the left and the right reading exchanged
WriteWallsSwapped(a, front, left, right) ==
    LET cur_x == a.location.pos.x
        cur_y == a.location.pos.y
        cur_d == a.location.dir
        m1 == Set(a.maze, cur_y, cur_x, Turn(cur_d, "Forward"), front)
        m2 == Set(m1, cur_y, cur_x, Turn(cur_d, "Left"), right)
    IN  Set(m2, cur_y, cur_x, Turn(cur_d, "Right"), left)

\* the three self.maze.set calls of navigate
WriteWalls(a, front, left, right) ==
    LET cur_x == a.location.pos.x
        cur_y == a.location.pos.y
        cur_d == a.location.dir
        m1 == Set(a.maze, cur_y, cur_x, Turn(cur_d, "Forward"), front)
        m2 == Set(m1, cur_y, cur_x, Turn(cur_d, "Left"), left)
    IN  Set(m2, cur_y, cur_x, Turn(cur_d, "Right"), right)

\* the `if self.maze.get_goal() == self.location.pos` test of navigate
IsGoalReached(a, g) == a.maze.goal = a.location.pos

\* the tail of navigate: the scan of the four directions and the value returned
Choose(a, scan) ==
    [adachi |-> a,
     ret |-> IF scan.panic THEN RetPanic
             ELSE IF scan.result = "None" THEN ErrNoPath
             ELSE RetOk(GetDirectionTo(a.location.dir, scan.result))]

\* self.calc_step_map(goal) and what follows it in navigate
Recompute(a, sm) == Choose([a EXCEPT !.step_map = sm], Scan([a EXCEPT !.step_map = sm]))

\* the wall writes of navigate and what follows them
Record(a, m, g) == Recompute([a EXCEPT !.maze = m], CalcStepMap(m, a.step_map, a.mode, g))

\* navigate that also makes the move it returns
NavigateMoves(a, front, left, right, g) ==
    IF IsGoalReached(a, g)
    THEN [adachi |-> a, ret |-> ErrGoalReached]
    ELSE LET r == Record(a, WriteWalls(a, front, left, right), g)
         IN  IF r.ret[1] = "Ok"
             THEN [r EXCEPT !.adachi.location =
                                Forward([@ EXCEPT !.dir = Turn(@, r.ret[2])])]
             ELSE r

\* navigate that tests for the goal after it has written the readings
NavigateWritesFirst(a, front, left, right, g) ==
    IF IsGoalReached(a, g)
    THEN [adachi |-> [a EXCEPT !.maze = WriteWalls(a, front, left, right)],
          ret |-> ErrGoalReached]
    ELSE Record(a, WriteWalls(a, front, left, right), g)

\* <Adachi as PathFinder>::navigate: [adachi |-> the navigator after the call, ret]
Navigate(a, front, left, right, g) ==
    IF IsGoalReached(a, g)
    THEN [adachi |-> a, ret |-> ErrGoalReached]
    ELSE Record(a, WriteWalls(a, front, left, right), g)

\* the navigator held in the variables
Self == [location |-> location, maze |-> maze, step_map |-> step_map, mode |-> mode]

\* the arguments recorded for a step that is not a navigate / calc_step_map call
NoCall == [front |-> "Unexplored", left |-> "Unexplored", right |-> "Unexplored",
           goal |-> Position(0, 0)]

\* the locals of calc_step_map while no call is in progress
NoLocal == [no_cell_updated |-> FALSE, passes |-> 0, updates |-> 0]

----------------------------------------------------------------------------
(* Spec: a Maze is built (new, init, set, set_goal), handed to Adachi::new *)
(* and the navigator is then driven through its public operations.         *)

Init ==
    /\ maze = MazeNew(NavWidth, NavHeight)
    /\ location = LocationNew
    /\ step_map = <<>>
    /\ mode = "UnexploredAsAbsent"
    /\ actual_maze = MazeNew(1, 1)
    /\ limit = 0
    /\ pc = "maze"
    /\ call = NoCall
    /\ ret = RetNone
    /\ sets = 0
    /\ calls = 0
    /\ local = NoLocal

\* maze.init()
DoMazeInit ==
    /\ pc = "maze"
    /\ maze' = MazeInit(maze)
    /\ UNCHANGED <<location, step_map, mode, actual_maze, limit, pc, call, ret, sets, calls, local>>

\* maze.set(y, x, compass, wall)
DoMazeSet(y, x, compass, wall) ==
    /\ pc = "maze"
    /\ sets < MaxSets
    /\ maze' = Set(maze, y, x, compass, wall)
    /\ sets' = sets + 1
    /\ UNCHANGED <<location, step_map, mode, actual_maze, limit, pc, call, ret, calls, local>>

\* maze.set_goal(pos)
DoMazeSetGoal(pos) ==
    /\ pc = "maze"
    /\ maze' = SetGoal(maze, pos)
    /\ UNCHANGED <<location, step_map, mode, actual_maze, limit, pc, call, ret, sets, calls, local>>

\* Adachi::new(maze)
DoAdachiNew ==
    /\ pc = "maze"
    /\ LET a == AdachiNew(maze)
       IN  /\ location' = a.location
           /\ maze' = a.maze
           /\ step_map' = a.step_map
           /\ mode' = a.mode
    /\ pc' = "nav"
    /\ UNCHANGED <<actual_maze, limit, call, ret, sets, calls, local>>

\* Adachi::set_mode
DoSetMode(md) ==
    /\ pc = "nav"
    /\ calls < MaxCalls
    /\ mode' = md
    /\ call' = NoCall
    /\ ret' = RetNone
    /\ UNCHANGED <<maze, location, step_map, actual_maze, limit, pc, sets, calls, local>>

\* PathFinder::set_location
DoSetLocation(loc) ==
    /\ pc = "nav"
    /\ calls < MaxCalls
    /\ location' = loc
    /\ call' = NoCall
    /\ ret' = RetNone
    /\ UNCHANGED <<maze, step_map, mode, actual_maze, limit, pc, sets, calls, local>>

\* PathFinder::navigate(front, left, right, goal)
DoNavigate(front, left, right, g) ==
    /\ pc = "nav"
    /\ calls < MaxCalls
    /\ \E r \in {Navigate(Self, front, left, right, g)} :
           /\ location' = r.adachi.location
           /\ maze' = r.adachi.maze
           /\ step_map' = r.adachi.step_map
           /\ mode' = r.adachi.mode
           /\ ret' = r.ret
           /\ pc' = IF r.ret = RetPanic THEN "panic" ELSE "nav"
    /\ calls' = calls + 1
    /\ call' = [front |-> front, left |-> left, right |-> right, goal |-> g]
    /\ UNCHANGED <<actual_maze, limit, sets, local>>

Locations(m) == [pos : Cells(m), dir : Compass]

Next ==
    \/ DoMazeInit
    \/ \E p \in Cells(maze), c \in Compass, w \in Wall : DoMazeSet(p.y, p.x, c, w)
    \/ \E p \in Cells(maze) : DoMazeSetGoal(p)
    \/ DoAdachiNew
    \/ \E md \in StepMapMode : DoSetMode(md)
    \/ \E loc \in Locations(maze) : DoSetLocation(loc)
    \/ \E f \in Wall, l \in Wall, r \in Wall, g \in Cells(maze) : DoNavigate(f, l, r, g)

Spec == Init /\ [][Next]_vars

----------------------------------------------------------------------------
(* Properties of Maze::set and of one navigate call, checked under Spec. *)

\* the value calc_step_map stored for a cell
Step(c) == step_map[c.y][c.x]

\* every edge on the outside of the grid reads Present
BoundaryPresent(m) ==
    \A c \in Cells(m) :
        /\ (c.y = 0 => Get(m, c.y, c.x, "South") = "Present")
        /\ (c.y = m.height - 1 => Get(m, c.y, c.x, "North") = "Present")
        /\ (c.x = 0 => Get(m, c.y, c.x, "West") = "Present")
        /\ (c.x = m.width - 1 => Get(m, c.y, c.x, "East") = "Present")

\* C1: after Maze::new and any sequence of Maze::set calls on cells of the grid,
\* every outer-boundary edge still reads Present.
C1_BoundaryStaysPresent == pc = "maze" => BoundaryPresent(maze)

\* the last step was a navigate call (every other operation returns nothing)
Navigated == ret # RetNone

\* the edge of the current cell in the absolute direction compass
EdgeHere(compass) == Get(maze, location.pos.y, location.pos.x, compass)

\* C3: whenever navigate returns Ok(d), the edge of the current cell in direction
\* location.dir.turn(d), read after the call's wall writes, is Absent.
C3_MoveCrossesAbsentEdge ==
    ret[1] = "Ok" => EdgeHere(Turn(location.dir, ret[2])) = "Absent"

\* the neighbour of the current cell in the direction compass, if it is a cell
NeighbourHere(compass) ==
    {q \in Cells(maze) :
        /\ q.x = location.pos.x + (CASE compass = "East" -> 1 [] compass = "West" -> -1
                                     [] OTHER -> 0)
        /\ q.y = location.pos.y + (CASE compass = "North" -> 1 [] compass = "South" -> -1
                                     [] OTHER -> 0)}

\* C3 witness: navigate returned a move although an Unexplored edge of the
\* current cell leads to a neighbour closer to the goal than the one it chose
C3_Witness ==
    /\ ret[1] = "Ok"
    /\ \E c \in Compass, q \in Cells(maze), n \in Cells(maze) :
           /\ EdgeHere(c) = "Unexplored"
           /\ q \in NeighbourHere(c)
           /\ n \in NeighbourHere(Turn(location.dir, ret[2]))
           /\ Step(q) < Step(n)

\* C4: navigate fails with GoalReached exactly when the current cell equals the
\* goal argument of the call.
C4_GoalReachedIffAtGoalArgument ==
    Navigated => (ret = ErrGoalReached <=> location.pos = call.goal)

\* some direction has an Absent edge and a neighbour with a distance
HasOpenFiniteNeighbour ==
    \E c \in Compass, q \in Cells(maze) :
        /\ EdgeHere(c) = "Absent"
        /\ q \in NeighbourHere(c)
        /\ Step(q) # NONE

\* C5: if, after navigate has written the walls and recomputed the field, no
\* direction has both an Absent edge and a neighbour with a finite distance,
\* navigate fails with NoPath.
C5_NoPathWithoutFiniteNeighbour ==
    (Navigated /\ ret # ErrGoalReached /\ ~HasOpenFiniteNeighbour) => ret = ErrNoPath

\* position of a direction in the scan order North, East, South, West
Rank(compass) ==
    CASE compass = "North" -> 1 [] compass = "East" -> 2
      [] compass = "South" -> 3 [] compass = "West" -> 4

\* the directions with an Absent edge whose neighbour has the least distance
\* among the neighbours behind Absent edges
Best ==
    {c \in Compass :
        /\ EdgeHere(c) = "Absent"
        /\ \A q \in NeighbourHere(c), c2 \in Compass :
               EdgeHere(c2) = "Absent" =>
                   \A q2 \in NeighbourHere(c2) : Step(q) <= Step(q2)}

\* C8: when navigate returns Ok, the move is the relative turn to the first
\* direction, in the order North, East, South, West, among the directions whose
\* edge is Absent and whose neighbour has the minimum distance.
C8_FirstMinimalDirection ==
    ret[1] = "Ok" =>
        /\ Turn(location.dir, ret[2]) \in Best
        /\ \A c \in Best : Rank(Turn(location.dir, ret[2])) <= Rank(c)

\* C8 witness: two directions tie and the robot faces the later one, which
\* navigate does not choose
C8_Witness ==
    /\ ret[1] = "Ok"
    /\ location.dir \in Best
    /\ ret[2] # "Forward"

\* C9: a navigate call that fails with GoalReached leaves the grid (edges and
\* goal), the location, the mode and the distance field as they were.
C9_GoalReachedChangesNothing ==
    [][ret' = ErrGoalReached => UNCHANGED <<maze, location, mode, step_map>>]_vars

\* C9 witness: navigate failed with GoalReached and none of the three readings
\* it was given is what the grid holds for that edge
C9_Witness ==
    /\ ret = ErrGoalReached
    /\ call.front # EdgeHere(Turn(location.dir, "Forward"))
    /\ call.left # EdgeHere(Turn(location.dir, "Left"))
    /\ call.right # EdgeHere(Turn(location.dir, "Right"))
    /\ call.goal # location.pos

----------------------------------------------------------------------------
(* Grids the specifications below start from, and the reference distance.  *)

\* the grid shapes with at most n cells
Shapes(n) == {s \in (1..n) \X (1..n) : s[1] * s[2] <= n}

\* indices <<y, x>> of the horizontal and vertical edges between two cells
InnerH(w, h) == (1..(h - 1)) \X (0..(w - 1))
InnerV(w, h) == (0..(h - 1)) \X (1..(w - 1))

\* the Maze of width w and height h whose outer edges are Present, whose inner
\* edges are given by hi and vi, and whose goal is the one Maze::init sets
MazeOf(w, h, hi, vi) ==
    [width |-> w,
     height |-> h,
     horizontal_walls |->
         [y \in 0..h |-> [x \in 0..(w - 1) |->
             IF y = 0 \/ y = h THEN "Present" ELSE hi[<<y, x>>]]],
     vertical_walls |->
         [y \in 0..(h - 1) |-> [x \in 0..w |->
             IF x = 0 \/ x = w THEN "Present" ELSE vi[<<y, x>>]]],
     goal |-> Position(w \div 2, h \div 2)]

\* the edge between two adjacent cells p and q, read from the edge matrices
RefEdge(m, p, q) ==
    CASE q.y = p.y + 1 -> m.horizontal_walls[p.y + 1][p.x]
      [] q.y = p.y - 1 -> m.horizontal_walls[p.y][p.x]
      [] q.x = p.x + 1 -> m.vertical_walls[p.y][p.x + 1]
      [] q.x = p.x - 1 -> m.vertical_walls[p.y][p.x]

\* the cells one passable edge away from p
RefNeighbours(m, passable, p) ==
    {q \in Cells(m) :
        /\ (IF q.x > p.x THEN q.x - p.x ELSE p.x - q.x)
            + (IF q.y > p.y THEN q.y - p.y ELSE p.y - q.y) = 1
        /\ RefEdge(m, p, q) \in passable}

\* breadth-first search by layers: the cells of `frontier` are at distance d
RECURSIVE RefBfs(_, _, _, _, _)
RefBfs(m, passable, frontier, d, dist) ==
    IF frontier = {} THEN dist
    ELSE LET reached == [c \in Cells(m) |-> IF c \in frontier THEN d ELSE dist[c]]
             next == {q \in Cells(m) :
                         /\ reached[q] = -1
                         /\ \E p \in frontier : q \in RefNeighbours(m, passable, p)}
         IN  RefBfs(m, passable, next, d + 1, reached)

\* length of a shortest path of passable edges from each cell to target; -1: none
RefDistance(m, passable, target) ==
    RefBfs(m, passable, {target}, 0, [c \in Cells(m) |-> -1])

\* the edges a path may cross under a policy
Passable(md) ==
    IF md = "UnexploredAsAbsent" THEN {"Absent", "Unexplored"} ELSE {"Absent"}

----------------------------------------------------------------------------
(* SpecStepMap: calc_step_map as a function of the grid, the policy and    *)
(* the target.  The grid and the policy are drawn at the start; every call *)
(* works on the field the previous call left.                              *)

InitStepMap ==
    /\ \E s \in Shapes(MaxCells) :
           \E hi \in [InnerH(s[1], s[2]) -> Wall], vi \in [InnerV(s[1], s[2]) -> Wall] :
               maze = MazeOf(s[1], s[2], hi, vi)
    /\ location = LocationNew
    /\ step_map = <<>>
    /\ mode \in StepMapMode
    /\ actual_maze = MazeNew(1, 1)
    /\ limit = 0
    /\ pc = "stepmap"
    /\ call = NoCall
    /\ ret = RetNone
    /\ sets = 0
    /\ calls = 0
    /\ local = NoLocal

\* Adachi::calc_step_map(goal)
DoCalcStepMap(target) ==
    /\ pc = "stepmap"
    /\ step_map' = CalcStepMap(maze, step_map, mode, target)
    /\ call' = [NoCall EXCEPT !.goal = target]
    /\ UNCHANGED <<maze, location, mode, actual_maze, limit, pc, ret, sets, calls, local>>

NextStepMap == \E t \in Cells(maze) : DoCalcStepMap(t)

SpecStepMap == InitStepMap /\ [][NextStepMap]_vars

----------------------------------------------------------------------------
(* Properties of calc_step_map, checked under SpecStepMap. *)

\* |a - b|
AbsDiff(a, b) == IF a > b THEN a - b ELSE b - a

\* the field agrees with the reference distances ref wherever ref is defined
AgreesWhereReachable(ref) ==
    \A c \in Cells(maze) : ref[c] # -1 => Step(c) = ref[c]

\* C2: after calc_step_map(target), every cell that a path of passable edges
\* (Absent, and Unexplored under UnexploredAsAbsent) joins to the target holds
\* the length of a shortest such path, as a breadth-first search finds it;
\* the target itself holds 0.
C2_StepMapIsShortestPath ==
    step_map # <<>> =>
        /\ Step(call.goal) = 0
        /\ AgreesWhereReachable(RefDistance(maze, Passable(mode), call.goal))

\* C2 witness: a computed field in which some cell reaches the target only by
\* a detour (farther than the wall-free distance) and some cell not at all
C2_Witness ==
    /\ step_map # <<>>
    /\ \E c \in Cells(maze) :
           /\ Step(c) < NONE
           /\ Step(c) > AbsDiff(c.x, call.goal.x) + AbsDiff(c.y, call.goal.y)
    /\ \E c \in Cells(maze) : Step(c) = NONE

OtherMode(md) ==
    IF md = "UnexploredAsAbsent" THEN "UnexploredAsPresent" ELSE "UnexploredAsAbsent"

\* the field calc_step_map computes for the grid and target of the state under
\* the policy that is not the active one
OtherStepMap == CalcStepMap(maze, <<>>, OtherMode(mode), call.goal)

\* every value of the field hi is at least the value of the field lo
AtLeast(hi, lo) == \A c \in Cells(maze) : hi[c.y][c.x] >= lo[c.y][c.x]

\* C10: for every cell the value stored in UnexploredAsPresent mode is at least
\* the value stored in UnexploredAsAbsent mode for the same grid and target
\* (NONE counting as larger than every distance).
C10_ConservativeAtLeastOptimistic ==
    step_map # <<>> =>
        IF mode = "UnexploredAsPresent"
        THEN AtLeast(step_map, OtherStepMap)
        ELSE AtLeast(OtherStepMap, step_map)

\* some cell has a distance in the field hi, larger than its value in lo
LongerSomewhere(hi, lo) ==
    \E c \in Cells(maze) : hi[c.y][c.x] < NONE /\ hi[c.y][c.x] > lo[c.y][c.x]

\* C10 witness: a cell the conservative field reaches, by a longer way than the
\* optimistic field
C10_Witness ==
    /\ step_map # <<>>
    /\ mode = "UnexploredAsPresent"
    /\ LongerSomewhere(step_map, OtherStepMap)

\* a cell holds NONE exactly where the reference search found no path
SentinelWhereUnreachable(ref) ==
    \A c \in Cells(maze) : Step(c) = NONE <=> ref[c] = -1

\* C12: after calc_step_map(target) a cell holds the sentinel NONE if and only
\* if no path of edges passable under the active policy joins it to the target.
C12_SentinelIffDisconnected ==
    step_map # <<>> =>
        SentinelWhereUnreachable(RefDistance(maze, Passable(mode), call.goal))

\* C12 witness: under UnexploredAsPresent a cell keeps the sentinel although an
\* Unexplored edge joins it to a cell that has a distance
C12_Witness ==
    /\ step_map # <<>>
    /\ mode = "UnexploredAsPresent"
    /\ \E c \in Cells(maze), q \in Cells(maze) :
           /\ AbsDiff(c.x, q.x) + AbsDiff(c.y, q.y) = 1
           /\ RefEdge(maze, c, q) = "Unexplored"
           /\ Step(c) = NONE
           /\ Step(q) > 0
           /\ Step(q) < NONE

----------------------------------------------------------------------------
(* SpecSolve: the loop of tests::solve (lib.rs), one step per iteration.   *)
(* The actual maze has Absent or Present edges, a Present boundary and the *)
(* navigator's goal within reach of (0,0); the navigator is the one        *)
(* Adachi::new makes of a new Maze whose goal is the default or was set    *)
(* with set_goal.                                                          *)

\* the limit of the loop: `if limit > 1000`
StepLimit == 1000

\* the cell g can be reached from (0,0) over Absent edges of the maze m
Solvable(m, g) == RefDistance(m, {"Absent"}, g)[Position(0, 0)] # -1

InitSolve ==
    /\ \E s \in Shapes(SolveMaxCells) :
           \E hi \in [InnerH(s[1], s[2]) -> {"Absent", "Present"}],
              vi \in [InnerV(s[1], s[2]) -> {"Absent", "Present"}],
              g \in Cells(MazeNew(s[1], s[2])) :
               /\ actual_maze = MazeOf(s[1], s[2], hi, vi)
               /\ Solvable(actual_maze, g)
               /\ \E a \in {AdachiNew(SetGoal(MazeNew(s[1], s[2]), g))} :
                      /\ maze = a.maze
                      /\ location = a.location
                      /\ step_map = a.step_map
                      /\ mode = a.mode
    /\ limit = 0
    /\ pc = "loop"
    /\ call = NoCall
    /\ ret = RetNone
    /\ sets = 0
    /\ calls = 0
    /\ local = NoLocal

\* the rest of an iteration once navigate has returned r: the two assertions on
\* the move, the move itself, the limit and the test for the goal
Advance(r) ==
    /\ maze' = r.adachi.maze
    /\ step_map' = r.adachi.step_map
    /\ mode' = r.adachi.mode
    /\ ret' = r.ret
    /\ IF r.ret = RetPanic
       THEN /\ pc' = "panic"
            /\ UNCHANGED <<location, limit>>
       ELSE IF r.ret[1] # "Ok"
       THEN /\ pc' = "assert_is_ok"
            /\ UNCHANGED <<location, limit>>
       ELSE IF Get(actual_maze, location.pos.y, location.pos.x,
                   Turn(location.dir, r.ret[2])) = "Present"
       THEN /\ pc' = "assert_wall"
            /\ UNCHANGED <<location, limit>>
       ELSE /\ location' = Forward([r.adachi.location EXCEPT !.dir = Turn(@, r.ret[2])])
            /\ limit' = limit + 1
            /\ pc' = IF limit' > StepLimit THEN "assert_limit"
                     ELSE IF location'.pos = GetGoal(r.adachi) THEN "done"
                     ELSE "loop"

\* one iteration of the loop
SolveStep ==
    /\ pc = "loop"
    /\ IF location.pos \notin Cells(actual_maze)
       THEN \* actual_maze.get indexes outside the edge matrices
            /\ pc' = "panic"
            /\ UNCHANGED <<maze, location, step_map, mode, limit, call, ret>>
       ELSE \E front \in {Get(actual_maze, location.pos.y, location.pos.x,
                              Turn(location.dir, "Forward"))},
               left \in {Get(actual_maze, location.pos.y, location.pos.x,
                             Turn(location.dir, "Left"))},
               right \in {Get(actual_maze, location.pos.y, location.pos.x,
                              Turn(location.dir, "Right"))} :
                /\ call' = [front |-> front, left |-> left, right |-> right,
                            goal |-> GetGoal(Self)]
                /\ \E r \in {Navigate(Self, front, left, right, GetGoal(Self))} :
                       Advance(r)
    /\ calls' = calls + 1
    /\ UNCHANGED <<actual_maze, sets, local>>

SpecSolve == InitSolve /\ [][SolveStep]_vars /\ WF_vars(SolveStep)

----------------------------------------------------------------------------
(* Properties of the driving loop, checked under SpecSolve. *)

\* the robot stands on the navigator's goal
Arrived == location.pos = maze.goal

\* C6: in the driving loop over a solvable actual maze, every navigate call
\* made before arrival returns a move, and the robot's position eventually
\* equals the goal, within the step limit.  An iteration is always possible
\* while pc = "loop" and adds one to limit, which the loop caps, so every run of
\* the loop ends; the robot arrives if and only if the loop never ends
\* anywhere but on the goal.
C6_SolveReachesGoal ==
    /\ (calls > 0 /\ ret[1] # "Ok" => Arrived)
    /\ (pc # "loop" => Arrived)
    /\ pc # "assert_limit"
    /\ limit <= StepLimit

\* C6 witness: the loop has ended on the goal after more steps than a shortest
\* path takes, the robot having run into walls it did not know
C6_Witness ==
    /\ pc = "done"
    /\ Arrived
    /\ limit > RefDistance(actual_maze, {"Absent"}, maze.goal)[Position(0, 0)] + 2

\* C7: the move navigate returns in the driving loop never crosses an edge
\* that is Present in the actual maze, and the robot stays inside the grid.
C7_NeverCrossesWall ==
    [][ret'[1] = "Ok" =>
           /\ Get(actual_maze, location.pos.y, location.pos.x,
                  Turn(location.dir, ret'[2])) # "Present"
           /\ location'.pos \in Cells(actual_maze)]_vars

\* C7 witness: the robot has turned back out of a dead end and goes on
C7_Witness ==
    /\ pc = "loop"
    /\ ret = RetOk("Backward")
    /\ limit >= 3

----------------------------------------------------------------------------
(* SpecRecalc: calc_step_map called again and again on one navigator, for  *)
(* any target and under either policy, the walls of the navigator's grid   *)
(* being written between the calls as navigate writes them.                *)

InitRecalc ==
    /\ \E s \in Shapes(RecalcMaxCells) :
           \E hi \in [InnerH(s[1], s[2]) -> Wall], vi \in [InnerV(s[1], s[2]) -> Wall] :
               maze = MazeOf(s[1], s[2], hi, vi)
    /\ location = LocationNew
    /\ step_map = <<>>
    /\ mode = "UnexploredAsAbsent"
    /\ actual_maze = MazeNew(1, 1)
    /\ limit = 0
    /\ pc = "stale"
    /\ call = NoCall
    /\ ret = RetNone
    /\ sets = 0
    /\ calls = 0
    /\ local = NoLocal

\* Adachi::calc_step_map(goal) on the field the navigator holds
DoRecalc(target) ==
    /\ pc \in {"stale", "computed"}
    /\ calls < RecalcMaxCalls
    /\ step_map' = CalcStepMap(maze, step_map, mode, target)
    /\ call' = [NoCall EXCEPT !.goal = target]
    /\ calls' = calls + 1
    /\ pc' = "computed"
    /\ UNCHANGED <<maze, location, mode, actual_maze, limit, ret, sets, local>>

\* one self.maze.set(y, x, compass, wall) between two computations
DoRecalcSet(y, x, compass, wall) ==
    /\ pc \in {"stale", "computed"}
    /\ sets < MaxSets
    /\ Set(maze, y, x, compass, wall) # maze
    /\ maze' = Set(maze, y, x, compass, wall)
    /\ sets' = sets + 1
    /\ pc' = "stale"
    /\ UNCHANGED <<location, step_map, mode, actual_maze, limit, call, ret, calls, local>>

\* Adachi::set_mode between two computations
DoRecalcSetMode(md) ==
    /\ pc \in {"stale", "computed"}
    /\ md # mode
    /\ mode' = md
    /\ pc' = "stale"
    /\ UNCHANGED <<maze, location, step_map, actual_maze, limit, call, ret, sets, calls, local>>

NextRecalc ==
    \/ \E t \in Cells(maze) : DoRecalc(t)
    \/ \E p \in Cells(maze), c \in Compass, w \in Wall : DoRecalcSet(p.y, p.x, c, w)
    \/ \E md \in StepMapMode : DoRecalcSetMode(md)

SpecRecalc == InitRecalc /\ [][NextRecalc]_vars

\* C11: calc_step_map does not depend on what the field held before: the field
\* it leaves, after any earlier computations for other targets, walls or policy
\* and also when it is repeated with nothing changed, is the field it computes
\* on a navigator that has no field yet, for the same walls, policy and target.
C11_RecomputationIsFresh ==
    pc = "computed" => step_map = CalcStepMap(maze, <<>>, mode, call.goal)

\* C11 witness: a second computation, made after a wall was written, that
\* leaves cells unreached and others at a distance
C11_Witness ==
    /\ pc = "computed"
    /\ calls = 2
    /\ sets = 1
    /\ \E c \in Cells(maze) : Step(c) = NONE
    /\ \E c \in Cells(maze) : Step(c) > 1 /\ Step(c) < NONE

----------------------------------------------------------------------------
(* SpecCompass: the heading arithmetic of maze.rs on a Location drawn at   *)
(* the start: Location::turn, which applies Compass::turn to the heading,  *)
(* and Compass::get_direction_to from the heading to any other.  In this   *)
(* specification call holds [self, direction] or [self, target] and ret    *)
(* the value the table returned.                                           *)

InitCompass ==
    /\ maze = MazeNew(NavWidth, NavHeight)
    /\ location \in Locations(maze)
    /\ step_map = <<>>
    /\ mode = "UnexploredAsAbsent"
    /\ actual_maze = MazeNew(1, 1)
    /\ limit = 0
    /\ pc = "compass"
    /\ call = NoCall
    /\ ret = RetNone
    /\ sets = 0
    /\ calls = 0
    /\ local = NoLocal

\* location.turn(direction): self.dir = self.dir.turn(dir)
DoTurn(direction) ==
    /\ call' = [self |-> location.dir, direction |-> direction]
    /\ ret' = <<"Compass", Turn(location.dir, direction)>>
    /\ location' = [location EXCEPT !.dir = Turn(location.dir, direction)]
    /\ pc' = "turn"
    /\ UNCHANGED <<maze, step_map, mode, actual_maze, limit, sets, calls, local>>

\* location.dir.get_direction_to(target)
DoGetDirectionTo(target) ==
    /\ call' = [self |-> location.dir, target |-> target]
    /\ ret' = <<"Direction", GetDirectionTo(location.dir, target)>>
    /\ pc' = "get_direction_to"
    /\ UNCHANGED <<maze, location, step_map, mode, actual_maze, limit, sets, calls, local>>

NextCompass ==
    \/ \E d \in Direction : DoTurn(d)
    \/ \E t \in Compass : DoGetDirectionTo(t)

SpecCompass == InitCompass /\ [][NextCompass]_vars

\* C13: Compass::turn and Compass::get_direction_to are mutual inverses: the
\* relative turn get_direction_to returns for (h, h2) turns h to h2, and
\* get_direction_to from h to the heading that turn(h, d) returns is d.
C13_TurnAndDirectionToAreInverses ==
    /\ (pc = "get_direction_to" =>
            /\ ret[2] \in Direction
            /\ Turn(call.self, ret[2]) = call.target)
    /\ (pc = "turn" =>
            /\ ret[2] \in Compass
            /\ GetDirectionTo(call.self, ret[2]) = call.direction)

\* C13 witness: from West, get_direction_to(North) has returned Right
C13_Witness ==
    /\ pc = "get_direction_to"
    /\ call.self = "West"
    /\ call.target = "North"
    /\ ret[2] = "Right"

----------------------------------------------------------------------------
(* The text format of maze.rs.  A String is a sequence of one-character    *)
(* strings; a file's contents are one String with "\n" between the lines.  *)

\* the glyph of a wall: `match ... { Absent => .., Present => .., Unexplored => .. }`
Glyph(wall, absent, present, unexplored) ==
    CASE wall = "Absent" -> absent
      [] wall = "Present" -> present
      [] wall = "Unexplored" -> unexplored

\* " ".repeat(n)
RECURSIVE Spaces(_)
Spaces(n) == IF n = 0 THEN <<>> ELSE <<" ">> \o Spaces(n - 1)

\* `for j in 0..self.width { line += pillar; line += glyph of horizontal_walls[i][j] }`
RECURSIVE HorizontalLine(_, _, _, _)
HorizontalLine(m, g, i, j) ==
    IF j >= m.width THEN <<>>
    ELSE g.pillar \o Glyph(m.horizontal_walls[i][j], g.ha, g.hp, g.hu)
             \o HorizontalLine(m, g, i, j + 1)

\* `for j in 0..self.width + 1 { line += glyph of vertical_walls[i][j]; goal or blanks }`
RECURSIVE VerticalLine(_, _, _, _)
VerticalLine(m, g, i, j) ==
    IF j >= m.width + 1 THEN <<>>
    ELSE Glyph(m.vertical_walls[i][j], g.va, g.vp, g.vu)
             \o (IF j = m.goal.x /\ i = m.goal.y THEN g.goal ELSE Spaces(Len(g.goal)))
             \o VerticalLine(m, g, i, j + 1)

\* the lines to_text_data pushes, from row i on: two per row, then the top line
RECURSIVE TextLines(_, _, _)
TextLines(m, g, i) ==
    IF i >= m.height
    THEN <<HorizontalLine(m, g, m.height, 0) \o g.pillar>>
    ELSE <<HorizontalLine(m, g, i, 0) \o <<"+">>, VerticalLine(m, g, i, 0)>>
             \o TextLines(m, g, i + 1)

\* .iter().rev()
RECURSIVE Reverse(_)
Reverse(seq) == IF seq = <<>> THEN <<>> ELSE Append(Reverse(Tail(seq)), Head(seq))

\* .join("\n")
RECURSIVE Join(_)
Join(lines) ==
    IF lines = <<>> THEN <<>>
    ELSE IF Len(lines) = 1 THEN Head(lines)
    ELSE Head(lines) \o <<"\n">> \o Join(Tail(lines))

\* Maze::to_text_data; h_absent is horizontal_wall_absent, v_absent is
\* vertical_wall_absent, and so on
ToTextData(m, h_absent, h_present, h_unexplored, v_absent, v_present, v_unexplored, pillar, goal) ==
    Join(Reverse(TextLines(m,
                           [ha |-> h_absent, hp |-> h_present, hu |-> h_unexplored,
                            va |-> v_absent, vp |-> v_present, vu |-> v_unexplored,
                            pillar |-> pillar, goal |-> goal],
                           0)))

\* Maze::write_maze_file: the contents written to the file
WriteMazeFile(m) ==
    ToTextData(m, <<" ">>, <<"-">>, <<" ">>, <<" ">>, <<"|">>, <<" ">>, <<"+">>, <<"G">>)

\* str::lines(): cur is the line being collected
RECURSIVE Lines(_, _)
Lines(contents, cur) ==
    IF contents = <<>> THEN (IF cur = <<>> THEN <<>> ELSE <<cur>>)
    ELSE IF Head(contents) = "\n" THEN <<cur>> \o Lines(Tail(contents), <<>>)
    ELSE Lines(Tail(contents), Append(cur, Head(contents)))

\* the lines read_maze_file works on: reversed, every "+" removed
ReadLines(contents) ==
    LET lines == Reverse(Lines(contents, <<>>))
    IN  [k \in DOMAIN lines |-> SelectSeq(lines[k], LAMBDA c : c # "+")]

\* lines[row].chars().nth(col) is Some: neither the index nor the unwrap panics
HasChar(lines, row, col) == row + 1 \in DOMAIN lines /\ col + 1 \in DOMAIN lines[row + 1]

\* lines[row].chars().nth(col).unwrap()
CharAt(lines, row, col) == lines[row + 1][col + 1]

\* the wall a character stands for: `match c { ' ' => Absent, '-' => Present, _ => .. }`
ReadWall(c, present) ==
    CASE c = " " -> "Absent"
      [] c = present -> "Present"
      [] OTHER -> "Unexplored"

\* Maze::read_maze_file applied to the contents of the file:
\* [maze |-> the maze after the call, ret |-> Ok(()) or a panic]
ReadMazeFile(self, contents, width, height) ==
    LET lines == ReadLines(contents)
        complete ==
            \A y \in 0..(height - 1), x \in 0..(width - 1) :
                /\ HasChar(lines, y * 2, x)
                /\ HasChar(lines, y * 2 + 1, x * 2)
                /\ HasChar(lines, y * 2 + 1, x * 2 + 1)
                /\ y \in DOMAIN self.horizontal_walls /\ x \in DOMAIN self.horizontal_walls[y]
                /\ y \in DOMAIN self.vertical_walls /\ x \in DOMAIN self.vertical_walls[y]
        goals == {c \in {Position(x, y) : x \in 0..(width - 1), y \in 0..(height - 1)} :
                     CharAt(lines, c.y * 2 + 1, c.x * 2 + 1) = "G"}
        last == CHOOSE c \in goals :
                    \A d \in goals : d.y < c.y \/ (d.y = c.y /\ d.x <= c.x)
    IN  IF ~complete THEN [maze |-> self, ret |-> RetPanic]
        ELSE [maze |->
                 [self EXCEPT
                     !.horizontal_walls =
                         [y \in DOMAIN @ |-> [x \in DOMAIN @[y] |->
                             IF y < height /\ x < width
                             THEN ReadWall(CharAt(lines, y * 2, x), "-")
                             ELSE @[y][x]]],
                     !.vertical_walls =
                         [y \in DOMAIN @ |-> [x \in DOMAIN @[y] |->
                             IF y < height /\ x < width
                             THEN ReadWall(CharAt(lines, y * 2 + 1, x * 2), "|")
                             ELSE @[y][x]]],
                     !.goal = IF goals = {} THEN @ ELSE last],
              ret |-> RetOk("")]

----------------------------------------------------------------------------
(* SpecMaze: the operations of Maze on a grid drawn at the start, in any   *)
(* state that new, set and set_goal can bring about: the South and West    *)
(* boundary Present (set never clears them), every other edge any Wall,    *)
(* the goal any cell.                                                      *)

\* the Maze of width w and height h with the edges hs and vs (South and West
\* boundary aside) and the goal g
GridOf(w, h, hs, vs, g) ==
    [width |-> w,
     height |-> h,
     horizontal_walls |->
         [y \in 0..h |-> [x \in 0..(w - 1) |-> IF y = 0 THEN "Present" ELSE hs[<<y, x>>]]],
     vertical_walls |->
         [y \in 0..(h - 1) |-> [x \in 0..w |-> IF x = 0 THEN "Present" ELSE vs[<<y, x>>]]],
     goal |-> g]

InitMaze ==
    /\ \E s \in Shapes(GridMaxCells) :
           \E hs \in [(1..s[2]) \X (0..(s[1] - 1)) -> Wall],
              vs \in [(0..(s[2] - 1)) \X (1..s[1]) -> Wall],
              g \in Cells(MazeNew(s[1], s[2])) :
               maze = GridOf(s[1], s[2], hs, vs, g)
    /\ location = LocationNew
    /\ step_map = <<>>
    /\ mode = "UnexploredAsAbsent"
    /\ actual_maze = MazeNew(1, 1)
    /\ limit = 0
    /\ pc = "grid"
    /\ call = NoCall
    /\ ret = RetNone
    /\ sets = 0
    /\ calls = 0
    /\ local = NoLocal

\* maze.init() on the grid
DoGridInit ==
    /\ pc = "grid"
    /\ maze' = MazeInit(maze)
    /\ pc' = "init"
    /\ UNCHANGED <<location, step_map, mode, actual_maze, limit, call, ret, sets, calls,
                   local>>

\* maze.write_maze_file(f), then actual_maze.read_maze_file(f, width, height) on
\* a maze of the same size: a new one, or one that holds the same grid
DoGridWriteRead(target) ==
    /\ pc = "grid"
    /\ \E r \in {ReadMazeFile(target, WriteMazeFile(maze), maze.width, maze.height)} :
           /\ actual_maze' = r.maze
           /\ ret' = r.ret
    /\ pc' = "read"
    /\ UNCHANGED <<maze, location, step_map, mode, limit, call, sets, calls, local>>

NextMaze ==
    \/ DoGridInit
    \/ \E target \in {MazeNew(maze.width, maze.height), maze} : DoGridWriteRead(target)

SpecMaze == InitMaze /\ [][NextMaze]_vars

\* C14: right after Maze::init (which Maze::new ends with) on a grid of width
\* at least 2, every outer-boundary edge is Present, the East edge of cell (0,0)
\* is Present and every other edge between two cells is Unexplored.
C14_InitialWalls ==
    (pc = "init" /\ maze.width >= 2) =>
        /\ BoundaryPresent(maze)
        /\ \A e \in InnerH(maze.width, maze.height) :
               maze.horizontal_walls[e[1]][e[2]] = "Unexplored"
        /\ \A e \in InnerV(maze.width, maze.height) :
               maze.vertical_walls[e[1]][e[2]] =
                   IF e = <<0, 1>> THEN "Present" ELSE "Unexplored"
        /\ maze = MazeNew(maze.width, maze.height)

\* C14 witness: a grid two cells wide and two high has been initialised
C14_Witness ==
    /\ pc = "init"
    /\ maze.width >= 2
    /\ maze.height >= 2
    /\ Get(maze, 0, 0, "East") = "Present"
    /\ Get(maze, 0, 0, "North") = "Unexplored"
    /\ Get(maze, 1, 0, "East") = "Unexplored"

\* C15: a grid written with write_maze_file and read back with read_maze_file
\* into a maze of the same width and height gives the same horizontal and
\* vertical edge matrices and the same goal.
C15_RoundTrip ==
    pc = "read" =>
        /\ ret = RetOk("")
        /\ actual_maze.horizontal_walls = maze.horizontal_walls
        /\ actual_maze.vertical_walls = maze.vertical_walls
        /\ actual_maze.goal = maze.goal

----------------------------------------------------------------------------
(* Properties of navigate as a step of Spec: what one call changes.  The   *)
(* step of a navigate call is the one that adds to calls; call' holds its  *)
(* arguments and ret' what it returned.                                    *)

\* C16: no navigate call changes the navigator's location, whatever it
\* returns; the location changes only through set_location.
C16_NavigateKeepsLocation ==
    [][/\ (calls' # calls => location' = location)
       /\ (location' # location => (pc = "nav" /\ ret' = RetNone /\ call' = NoCall))]_vars

\* C16 witness: navigate has returned a move to a navigator that set_location
\* had put on (1,0) facing West, and the navigator is still there
C16_Witness ==
    /\ ret = RetOk("Right")
    /\ location = [pos |-> Position(1, 0), dir |-> "West"]
    /\ calls = 1

\* the place of an edge in the two matrices: the edge of cell c towards compass
EdgeOf(c, compass) ==
    CASE compass = "North" -> <<"horizontal", c.y + 1, c.x>>
      [] compass = "East"  -> <<"vertical", c.y, c.x + 1>>
      [] compass = "South" -> <<"horizontal", c.y, c.x>>
      [] compass = "West"  -> <<"vertical", c.y, c.x>>

\* the edge of cell c towards compass lies on the outside of the grid m
OnBoundary(m, c, compass) ==
    \/ (compass = "South" /\ c.y = 0)
    \/ (compass = "North" /\ c.y = m.height - 1)
    \/ (compass = "West" /\ c.x = 0)
    \/ (compass = "East" /\ c.x = m.width - 1)

\* what an edge of the current cell holds after it was written with a reading:
\* the reading, unless that would clear a boundary edge
Written(compass, reading) ==
    IF reading # "Present" /\ OnBoundary(maze, location.pos, compass)
    THEN EdgeHere(compass)
    ELSE reading

\* the reading that the call args wrote to the edge towards compass, in a set
ReadingFor(args, compass) ==
    {r \in Wall :
        \/ (compass = Turn(location.dir, "Forward") /\ r = args.front)
        \/ (compass = Turn(location.dir, "Left") /\ r = args.left)
        \/ (compass = Turn(location.dir, "Right") /\ r = args.right)}

\* C17: a navigate call that does not fail with GoalReached sets the edges of
\* the current cell towards dir.turn(Forward), dir.turn(Left) and
\* dir.turn(Right) to front, left and right (a write that would clear a
\* boundary edge is dropped) and leaves the edge towards dir.turn(Backward),
\* every other edge of the grid and the goal as they were.
C17_NavigateWritesThreeEdges ==
    [][(calls' # calls /\ ret' # ErrGoalReached) =>
           /\ maze'.goal = maze.goal
           /\ \A k \in Compass :
                  Get(maze', location.pos.y, location.pos.x, k) =
                      IF k = Turn(location.dir, "Backward") THEN EdgeHere(k)
                      ELSE CHOOSE w \in Wall :
                               \A r \in ReadingFor(call', k) : w = Written(k, r)
           /\ \A c \in Cells(maze), k \in Compass :
                  (\A k2 \in Compass : EdgeOf(c, k) # EdgeOf(location.pos, k2)) =>
                      Get(maze', c.y, c.x, k) = Get(maze, c.y, c.x, k)]_vars

\* some neighbour behind an Absent edge of the current cell has a distance
\* that is smaller than the distance of the current cell
HasCloserOpenNeighbour ==
    \E c \in Compass, q \in Cells(maze) :
        /\ EdgeHere(c) = "Absent"
        /\ q \in NeighbourHere(c)
        /\ Step(q) < NONE
        /\ Step(q) < Step(location.pos)

\* C18: whenever navigate returns Ok(d), the neighbour in direction
\* dir.turn(d) has a finite value, strictly smaller than the value of the
\* current cell; when no neighbour behind an Absent edge is strictly closer,
\* navigate fails with NoPath.
C18_MoveIsStrictlyCloser ==
    /\ ret[1] = "Ok" =>
           /\ NeighbourHere(Turn(location.dir, ret[2])) # {}
           /\ \A q \in NeighbourHere(Turn(location.dir, ret[2])) :
                  Step(q) < NONE /\ Step(q) < Step(location.pos)
    /\ (Navigated /\ ret # ErrGoalReached /\ ~HasCloserOpenNeighbour) => ret = ErrNoPath

\* C20: from every location in the grid, with every combination of readings
\* and every goal in the grid, navigate returns Ok or an error and indexes
\* neither the grid nor the distance field outside their bounds.
C20_NavigateStaysInBounds ==
    Navigated => (ret[1] \in {"Ok", "Err"} /\ pc # "panic")

----------------------------------------------------------------------------
(* SpecRelax: calc_step_map pass by pass.  One step is the head of the     *)
(* function, one iteration of its while loop (a full pass over the cells), *)
(* or the exit from the loop; local holds no_cell_updated and the counts   *)
(* of passes and updates.                                                  *)

InitRelax ==
    /\ \E s \in Shapes(RelaxMaxCells) :
           \E hi \in [InnerH(s[1], s[2]) -> Wall], vi \in [InnerV(s[1], s[2]) -> Wall] :
               maze = MazeOf(s[1], s[2], hi, vi)
    /\ location = LocationNew
    /\ step_map = <<>>
    /\ mode \in StepMapMode
    /\ actual_maze = MazeNew(1, 1)
    /\ limit = 0
    /\ pc = "idle"
    /\ call = NoCall
    /\ ret = RetNone
    /\ sets = 0
    /\ calls = 0
    /\ local = NoLocal

\* calc_step_map(goal) up to `self.step_map[goal.y][goal.x] = 0`
DoRelaxBegin(target) ==
    /\ pc \in {"idle", "fixpoint"}
    /\ step_map' = ResetStepMap(maze, step_map, target)
    /\ local' = NoLocal
    /\ call' = [NoCall EXCEPT !.goal = target]
    /\ pc' = "while"
    /\ UNCHANGED <<maze, location, mode, actual_maze, limit, ret, sets, calls>>

\* `while !no_cell_updated { ... }`: one iteration
DoRelaxPass ==
    /\ pc = "while"
    /\ ~local.no_cell_updated
    /\ \E st \in {WhileBody([step_map |-> step_map,
                              no_cell_updated |-> local.no_cell_updated,
                              passes |-> local.passes,
                              updates |-> local.updates], maze, mode)} :
           /\ step_map' = st.step_map
           /\ local' = [no_cell_updated |-> st.no_cell_updated,
                        passes |-> st.passes,
                        updates |-> st.updates]
    /\ UNCHANGED <<maze, location, mode, actual_maze, limit, pc, call, ret, sets, calls>>

\* the loop is left: calc_step_map returns
DoRelaxReturn ==
    /\ pc = "while"
    /\ local.no_cell_updated
    /\ pc' = "fixpoint"
    /\ UNCHANGED <<maze, location, step_map, mode, actual_maze, limit, call, ret, sets,
                   calls, local>>

NextRelax ==
    \/ \E t \in Cells(maze) : DoRelaxBegin(t)
    \/ DoRelaxPass
    \/ DoRelaxReturn

SpecRelax == InitRelax /\ [][NextRelax]_vars

\* for every cell and every neighbour in the grid joined to it by a passable
\* edge: value(cell) <= value(neighbour) + 1
IsFixpoint ==
    \A c \in Cells(maze), k \in Compass :
        \A n \in {GetNeighborCell(maze, c.y, c.x, k)} \ {<<>>} :
            Get(maze, c.y, c.x, k) \in Passable(mode) =>
                Step(c) <= step_map[n[1]][n[2]] + 1

\* the values of the field, added up
RECURSIVE SumOver(_, _)
SumOver(sm, cells) ==
    IF cells = {} THEN 0
    ELSE LET c == CHOOSE d \in cells : TRUE
         IN  sm[c.y][c.x] + SumOver(sm, cells \ {c})

\* C19: the relaxation loop of calc_step_map ends, and ends in a fixpoint.
\* The count of passes never exceeds the number of cells plus one, so the loop
\* is left after at most that many passes; when it is left, every cell's
\* value is at most one more than the value of every neighbour behind a
\* passable edge; and no pass raises the value of a cell, a pass that updated
\* a cell lowering the sum of the values by at least the number of its updates
\* (every update lowers one value by at least one).
C19_RelaxationEndsInFixpoint ==
    [][/\ local'.passes <= Cardinality(Cells(maze)) + 1
       /\ (pc' = "fixpoint" => IsFixpoint')
       /\ (local'.passes = local.passes + 1 =>
               /\ \A c \in Cells(maze) : step_map'[c.y][c.x] <= step_map[c.y][c.x]
               /\ SumOver(step_map', Cells(maze))
                      <= SumOver(step_map, Cells(maze)) - (local'.updates - local.updates)
               /\ (local'.no_cell_updated <=> step_map' = step_map))]_vars

\* C19 witness: the loop was left after at least four passes, one of which
\* lowered a value that an earlier update had set
C19_Witness ==
    /\ pc = "fixpoint"
    /\ local.passes >= 4
    /\ local.updates >= Cardinality({c \in Cells(maze) : Step(c) < NONE})

----------------------------------------------------------------------------
(* SpecEdge: Maze::set called again and again, for any cell, heading and   *)
(* wall, on a grid that Maze::new has just made.                           *)

InitEdge ==
    /\ \E s \in Shapes(EdgeMaxCells) : maze = MazeNew(s[1], s[2])
    /\ location = LocationNew
    /\ step_map = <<>>
    /\ mode = "UnexploredAsAbsent"
    /\ actual_maze = MazeNew(1, 1)
    /\ limit = 0
    /\ pc = "edges"
    /\ call = NoCall
    /\ ret = RetNone
    /\ sets = 0
    /\ calls = 0
    /\ local = NoLocal

\* maze.set(y, x, compass, wall); call' holds the arguments
DoEdgeSet(y, x, compass, wall) ==
    /\ pc = "edges"
    /\ sets < EdgeMaxSets
    /\ maze' = Set(maze, y, x, compass, wall)
    /\ call' = [y |-> y, x |-> x, compass |-> compass, wall |-> wall]
    /\ sets' = sets + 1
    /\ UNCHANGED <<location, step_map, mode, actual_maze, limit, pc, ret, calls, local>>

NextEdge ==
    \E p \in Cells(maze), c \in Compass, w \in Wall : DoEdgeSet(p.y, p.x, c, w)

SpecEdge == InitEdge /\ [][NextEdge]_vars

\* the heading opposite to compass
Opposite(compass) == Turn(compass, "Backward")

\* get(c, h) equals get(n, opposite of h) for every cell c of m and heading h
\* with a neighbour n = get_neighbor_cell(c, h), and n's neighbour back is c
EdgesShared(m) ==
    \A c \in Cells(m), h \in Compass :
        \E n \in {GetNeighborCell(m, c.y, c.x, h)} :
            n # <<>> =>
                /\ GetNeighborCell(m, n[1], n[2], Opposite(h)) = <<c.y, c.x>>
                /\ Get(m, c.y, c.x, h) = Get(m, n[1], n[2], Opposite(h))

\* the test calc_step_map makes before it lets cell c take a value from its
\* neighbour at heading h
CanStep(m, md, c, h) ==
    /\ GetNeighborCell(m, c.y, c.x, h) # <<>>
    /\ IsWall(md, Get(m, c.y, c.x, h))

\* calc_step_map lets c take a value from n exactly when it lets n take one from c
PassabilitySymmetric(m) ==
    \A md \in StepMapMode, c \in Cells(m), h \in Compass :
        \E n \in {GetNeighborCell(m, c.y, c.x, h)} :
            n # <<>> =>
                (CanStep(m, md, c, h) <=> CanStep(m, md, Position(n[2], n[1]), Opposite(h)))

\* C21: before and after every Maze::set call of any sequence, each edge
\* between two cells reads the same from both of its cells (get(c, h) =
\* get(n, opposite of h) for n = get_neighbor_cell(c, h)); the wall a call
\* writes on such an edge is the wall both cells then read; and the test
\* calc_step_map makes on an edge gives the same answer from both sides.
C21_InteriorEdgeIsShared ==
    [][/\ EdgesShared(maze) /\ EdgesShared(maze')
       /\ PassabilitySymmetric(maze) /\ PassabilitySymmetric(maze')
       /\ \E n \in {GetNeighborCell(maze, call'.y, call'.x, call'.compass)} :
              n # <<>> =>
                  /\ Get(maze', call'.y, call'.x, call'.compass) = call'.wall
                  /\ Get(maze', n[1], n[2], Opposite(call'.compass)) = call'.wall]_vars

\* C21 witness: on a grid two by two, after EdgeMaxSets set calls, the last one wrote
\* Absent on the South side of an upper cell, the cell below reads it on its
\* North side, and an edge written earlier from its West side reads Present
\* from its East side
C21_Witness ==
    /\ pc = "edges"
    /\ sets = EdgeMaxSets
    /\ maze.width = 2 /\ maze.height = 2
    /\ call.compass = "South" /\ call.y = 1 /\ call.wall = "Absent"
    /\ Get(maze, 0, call.x, "North") = "Absent"
    /\ Get(maze, 1, 0, "East") = "Present"
    /\ Get(maze, 1, 1, "West") = "Present"

----------------------------------------------------------------------------
(* SpecCell: one calc_step_map call, comparison by comparison.  The grid   *)
(* and the policy are drawn at the start.  local holds, besides the flag   *)
(* and the counters, the position k of the three nested for loops: the     *)
(* next comparison is that of cell (i, j) = (k / (4 * width), (k / 4) %    *)
(* width) with its neighbour at the (k % 4)-th heading of Compass::iter(). *)

InitCell ==
    /\ \E s \in Shapes(CellMaxCells) :
           \E hi \in [InnerH(s[1], s[2]) -> Wall], vi \in [InnerV(s[1], s[2]) -> Wall] :
               maze = MazeOf(s[1], s[2], hi, vi)
    /\ location = LocationNew
    /\ step_map = <<>>
    /\ mode \in StepMapMode
    /\ actual_maze = MazeNew(1, 1)
    /\ limit = 0
    /\ pc = "idle"
    /\ call = NoCall
    /\ ret = RetNone
    /\ sets = 0
    /\ calls = 0
    /\ local = NoLocal

\* the (i, j, compass) of position k of the for loops over maze m
CellI(m, k) == k \div (4 * m.width)
CellJ(m, k) == (k \div 4) % m.width
CellCompass(k) == CompassIter[(k % 4) + 1]

\* calc_step_map(goal) up to `self.step_map[goal.y][goal.x] = 0`
DoCellBegin(target) ==
    /\ pc = "idle"
    /\ step_map' = ResetStepMap(maze, step_map, target)
    /\ local' = [no_cell_updated |-> FALSE, passes |-> 0, updates |-> 0, k |-> 0]
    /\ call' = [NoCall EXCEPT !.goal = target]
    /\ pc' = "while"
    /\ UNCHANGED <<maze, location, mode, actual_maze, limit, ret, sets, calls>>

\* `while !no_cell_updated {`, `no_cell_updated = true;` and the for loops entered
DoCellWhile ==
    /\ pc = "while"
    /\ ~local.no_cell_updated
    /\ local' = [local EXCEPT !.no_cell_updated = TRUE, !.passes = @ + 1, !.k = 0]
    /\ pc' = "for"
    /\ UNCHANGED <<maze, location, step_map, mode, actual_maze, limit, call, ret, sets,
                   calls>>

\* the body of the innermost for loop, once
DoCellRelax ==
    /\ pc = "for"
    /\ local.k < maze.height * maze.width * 4
    /\ \E st \in {Relax([step_map |-> step_map,
                          no_cell_updated |-> local.no_cell_updated,
                          passes |-> local.passes,
                          updates |-> local.updates],
                         maze, mode, CellI(maze, local.k), CellJ(maze, local.k),
                         CellCompass(local.k))} :
           /\ step_map' = st.step_map
           /\ local' = [no_cell_updated |-> st.no_cell_updated,
                        passes |-> st.passes,
                        updates |-> st.updates,
                        k |-> local.k + 1]
    /\ UNCHANGED <<maze, location, mode, actual_maze, limit, pc, call, ret, sets, calls>>

\* the for loops are left: back to the test of the while loop
DoCellEndFor ==
    /\ pc = "for"
    /\ local.k = maze.height * maze.width * 4
    /\ pc' = "while"
    /\ UNCHANGED <<maze, location, step_map, mode, actual_maze, limit, call, ret, sets,
                   calls, local>>

\* the while loop is left: calc_step_map returns
DoCellReturn ==
    /\ pc = "while"
    /\ local.no_cell_updated
    /\ pc' = "done"
    /\ UNCHANGED <<maze, location, step_map, mode, actual_maze, limit, call, ret, sets,
                   calls, local>>

NextCell ==
    \/ \E t \in Cells(maze) : DoCellBegin(t)
    \/ DoCellWhile
    \/ DoCellRelax
    \/ DoCellEndFor
    \/ DoCellReturn

SpecCell == InitCell /\ [][NextCell]_vars

\* the neighbour position k of the for loops looks at, <<>> if there is none
NeighbourAt(k) == GetNeighborCell(maze, CellI(maze, k), CellJ(maze, k), CellCompass(k))

\* C22: in every comparison of calc_step_map (the grids checked have far
\* fewer than 65534 cells), neighbor + 1 computed in u16 is neighbor + 1 (no wrap-around): it is
\* at most 65535, it is 65535 only when the neighbour holds NONE, and then the
\* cell is not updated; a value the comparison writes to a cell is at most
\* the number of cells minus one, hence below NONE = 65534; and a cell holds
\* NONE or a value below the number of cells at every moment of the call.
C22_NoWrapAndSentinelApart ==
    [][/\ (pc' \in {"while", "for", "done"} =>
               \A c \in Cells(maze) :
                   \/ step_map'[c.y][c.x] = NONE
                   \/ step_map'[c.y][c.x] < Cardinality(Cells(maze)))
       /\ ((pc = "for" /\ pc' = "for") =>
               \E n \in {NeighbourAt(local.k)} :
                   n # <<>> =>
                       \E neighbor \in {step_map[n[1]][n[2]]},
                          i \in {CellI(maze, local.k)}, j \in {CellJ(maze, local.k)} :
                           /\ neighbor + 1 <= U16Max
                           /\ U16Add(neighbor, 1) = neighbor + 1
                           /\ (neighbor + 1 = U16Max <=> neighbor = NONE)
                           /\ (neighbor = NONE =>
                                   (step_map' = step_map
                                    /\ local'.updates = local.updates))
                           /\ (step_map'[i][j] # step_map[i][j] =>
                                   /\ step_map'[i][j] = neighbor + 1
                                   /\ step_map'[i][j] <= Cardinality(Cells(maze)) - 1
                                   /\ step_map'[i][j] < NONE))]_vars

\* C22 witness: the comparison just made was across an edge the policy lets
\* cross, of a cell holding 2 with a neighbour holding NONE (2 > 65535 is
\* false: no update), in the second pass or a later one
C22_Witness ==
    /\ pc = "for"
    /\ local.k > 0
    /\ NeighbourAt(local.k - 1) # <<>>
    /\ step_map[NeighbourAt(local.k - 1)[1]][NeighbourAt(local.k - 1)[2]] = NONE
    /\ IsWall(mode, Get(maze, CellI(maze, local.k - 1), CellJ(maze, local.k - 1),
                        CellCompass(local.k - 1)))
    /\ step_map[CellI(maze, local.k - 1)][CellJ(maze, local.k - 1)] = 2
    /\ local.passes >= 2

====
